---- MODULE Spec2Model ----
(***************************************************************************)
(* Typed Firestore accessors (0x80/firestore-typed).                       *)
(*                                                                         *)
(* The model has one caller that invokes the accessors one at a time, the  *)
(* Firestore client the accessors forward to (document reads, query reads, *)
(* transactional reads, staged and direct writes) and other writers that   *)
(* create, update and delete documents of the same collection between any  *)
(* two steps of the caller.  Every accessor is an async function: its      *)
(* synchronous prefix up to the await is one step, and the continuation    *)
(* after the client settled the awaited promise is another.                *)
(***************************************************************************)
EXTENDS Integers, Sequences, FiniteSets, TLC

VARIABLES
  store,    \* the collection: document id -> [exists, data]
  pc,       \* where the caller is: "idle", "awaiting", "looping", "done"
  call,     \* the accessor being executed and its arguments
  result,   \* what the accessor returned or threw (settled when pc = "done")
  snap,     \* what the awaited client read resolved to
  issued,   \* client reads issued by the current call: [direct, tx]
  tx,       \* the transactional context: [status, reads, writes]; its status is
            \* "none", "active", "committed" or "rolled-back"
  lastWrite,\* how the last update() of the returned wrapper reached the client:
            \* "none", "direct" or "staged"
  proc      \* progress of processDocuments / processDocumentsByChunk

vars == <<store, pc, call, result, snap, issued, tx, lastWrite, proc>>

----------------------------------------------------------------------------
(* Bounds of the model *)

\* largest limit a caller's own query carries
MaxLimit == 2
\* largest chunk size passed to processDocumentsByChunk
MaxChunk == 2
\* most writes staged in one transaction
MaxStaged == 1

----------------------------------------------------------------------------
(* Data *)

\* document ids of the collection, in document-id (__name__) order
IdOrder == <<"d1", "d2", "d3">>
DocIds == {IdOrder[i] : i \in 1..Len(IdOrder)}

\* the record type T: field a varies, field b is always there
Fields == {"a", "b"}
Records == [a : {1, 2}, b : {1}]
EmptyData == [f \in {} |-> 0]
Keys(d) == DOMAIN d

\* documentId arguments that are not document ids: "", undefined and null
EmptyString == ""
UndefinedArg == "undefined"
NullArg == "null"
IdArgs == DocIds \cup {EmptyString, UndefinedArg, NullArg}

\* errors the client rejects a read with
ClientErrors == {"permission-denied", "aborted"}

----------------------------------------------------------------------------
(* The Firestore client, as the accessors see it *)

Absent == [exists |-> FALSE, data |-> EmptyData]
Stored(d) == [exists |-> TRUE, data |-> d]
Entries == {Absent} \cup {Stored(d) : d \in Records}

\* a DocumentSnapshot: exists, id, data()
NoDoc == [exists |-> FALSE, id |-> "", data |-> EmptyData]
DocSnapshot(s, id) == [exists |-> s[id].exists, id |-> id, data |-> s[id].data]

\* the settled promise of a client read: fulfilled with a snapshot, or rejected
NotSettled == [ok |-> FALSE, err |-> "", doc |-> NoDoc, docs |-> <<>>]
Fulfilled(d) == [ok |-> TRUE, err |-> "", doc |-> d, docs |-> <<>>]
FulfilledQuery(ds) == [ok |-> TRUE, err |-> "", doc |-> NoDoc, docs |-> ds]
Rejected(e) == [ok |-> FALSE, err |-> e, doc |-> NoDoc, docs |-> <<>>]

\* ref.doc(documentId) rejects a path that is not a non-empty string
DocPathValid(id) == id \in DocIds

\* the transaction refuses a read once a write was staged
TxCanRead(t) == t.writes = <<>>

NoTx == [status |-> "none", reads |-> {}, writes |-> <<>>]

----------------------------------------------------------------------------
(* What an accessor gives back *)

Pending == [kind |-> "pending", id |-> "", data |-> EmptyData, err |-> "", bound |-> FALSE]
Undefined == [Pending EXCEPT !.kind = "undefined"]
Value(d) == [Pending EXCEPT !.kind = "value", !.data = d]
Throw(e) == [Pending EXCEPT !.kind = "throw", !.err = e]

\* (variant: the rejection caught and answered with the no-value result)
Await_caught(s, then) == IF s.ok THEN then ELSE Undefined

\* an await on a rejected promise throws the rejection out of the accessor:
\* none of the accessors has a try/catch
Await(s, then) == IF s.ok THEN then ELSE Throw(s.err)

\* invariant(condition, message) of ~/utils: throws unless the condition holds
invariant(condition) == IF condition THEN "passes" ELSE "throws"

\* (variant: a test for null and undefined only, documentId == null)
Falsy_nullish(id) == id \in {UndefinedArg, NullArg}

\* JavaScript's !documentId
Falsy(id) == id \in {EmptyString, UndefinedArg, NullArg}

NoReads == [direct |-> 0, tx |-> 0]

----------------------------------------------------------------------------
(* Queries of the client *)

\* Query.select(...fields): the projection of the query, replacing an earlier one
NoProjection == [on |-> FALSE, fields |-> {}]
Projection(S) == [on |-> TRUE, fields |-> S]

\* the collection reference is the query of every document in id order
CollectionRef == [where |-> "all", order |-> "asc", limit |-> 0, proj |-> NoProjection]

Where(q, w) == [q EXCEPT !.where = w]
OrderDesc(q) == [q EXCEPT !.order = "desc"]
Limit(q, n) == [q EXCEPT !.limit = n]
Select(q, S) == [q EXCEPT !.proj = Projection(S)]

\* what a caller's queryFn(ref) builds
CallerQueries ==
  {CollectionRef, Where(CollectionRef, "a=1"), OrderDesc(CollectionRef),
   Select(CollectionRef, {"b"}),
   Select(OrderDesc(Where(CollectionRef, "a=1")), {"a", "b"})}
  \cup {Limit(CollectionRef, n) : n \in 1..MaxLimit}

\* the select option: absent, or a list of fields of T (the empty list included)
NoSelect == [given |-> FALSE, fields |-> {}]
SelectOption(S) == [given |-> TRUE, fields |-> S]
SelectOptions == {NoSelect} \cup {SelectOption(S) : S \in {{}, {"a"}, {"a", "b"}}}

Matches(w, d) == w = "all" \/ (w = "a=1" /\ d.a = 1)

Reverse(sq) == [i \in 1..Len(sq) |-> sq[Len(sq) + 1 - i]]

Project(pr, d) == IF pr.on THEN [f \in pr.fields \cap DOMAIN d |-> d[f]] ELSE d

\* QuerySnapshot.docs of query q over the collection s
RunQuery(s, q) ==
  LET Hit(id) == s[id].exists /\ Matches(q.where, s[id].data)
      asc == SelectSeq(IdOrder, Hit)
      ordered == IF q.order = "desc" THEN Reverse(asc) ELSE asc
      n == IF q.limit = 0 \/ q.limit > Len(ordered) THEN Len(ordered) ELSE q.limit
  IN [i \in 1..n |->
        [exists |-> TRUE, id |-> ordered[i], data |-> Project(q.proj, s[ordered[i]].data)]]

NoCall == [op |-> "none", id |-> "", q |-> CollectionRef, sel |-> NoSelect]
DocCall(op, id) == [NoCall EXCEPT !.op = op, !.id = id]
QueryCall(op, q, sel) == [NoCall EXCEPT !.op = op, !.q = q, !.sel = sel]

----------------------------------------------------------------------------
(* Single-document accessors: what each does with the snapshot it awaited *)

\* (variant: absence answered the way the maybe accessor answers it)
getDocumentData_then_absentUndefined(doc) ==
  IF ~doc.exists THEN Undefined ELSE Value(doc.data)

getDocumentData_then(doc) ==
  IF invariant(doc.exists) = "throws" THEN Throw("not-found") ELSE Value(doc.data)

\* (variant: absence answered the way the required accessor answers it)
getDocumentDataMaybe_then_absentThrows(doc) ==
  IF invariant(doc.exists) = "throws" THEN Throw("not-found") ELSE Value(doc.data)

getDocumentDataMaybe_then(doc) == IF ~doc.exists THEN Undefined ELSE Value(doc.data)

getDocumentDataInTransaction_then(doc) ==
  IF invariant(doc.exists) = "throws" THEN Throw("not-found") ELSE Value(doc.data)

\* (variant: the existence test inverted)
getDocumentDataInTransactionMaybe_then_inverted(doc) ==
  IF doc.exists THEN Undefined ELSE Value(doc.data)

getDocumentDataInTransactionMaybe_then(doc) ==
  IF ~doc.exists THEN Undefined ELSE Value(doc.data)

----------------------------------------------------------------------------
(* Document wrappers *)

\* makeMutableDocument(snapshot): id, data and a write handle on the document
makeMutableDocument(doc) ==
  [Pending EXCEPT !.kind = "wrapper", !.id = doc.id, !.data = doc.data]

\* makeMutableDocumentInTransaction(snapshot, tx): the write handle is the transaction's
makeMutableDocumentInTransaction(doc) ==
  [Pending EXCEPT !.kind = "wrapper", !.id = doc.id, !.data = doc.data, !.bound = TRUE]

\* the patches a caller passes to update / updateWithPartial
Patches == {[a |-> 2]}
Merge(d, p) == [f \in DOMAIN d \cup DOMAIN p |-> IF f \in DOMAIN p THEN p[f] ELSE d[f]]

\* DocumentReference.update / Transaction.update applied to the collection
RECURSIVE ApplyWrites(_, _)
ApplyWrites(s, ws) ==
  IF ws = <<>> THEN s
  ELSE LET w == Head(ws)
       IN ApplyWrites([s EXCEPT ![w.id] = Stored(Merge(s[w.id].data, w.patch))], Tail(ws))

----------------------------------------------------------------------------
(* getFirstDocument and getFirstDocumentInTransaction *)

\* (variant: an empty select list taken for no select option)
getFirstDocument_query_emptyIgnored(q, sel) ==
  Limit(IF sel.given /\ sel.fields # {} THEN Select(q, sel.fields) ELSE q, 1)

getFirstDocument_query(q, sel) ==
  Limit(IF sel.given THEN Select(q, sel.fields) ELSE q, 1)

getFirstDocument_then(docs) ==
  IF Len(docs) = 0 THEN Undefined ELSE makeMutableDocument(docs[1])

\* (variant: the select branch built on the reference, not on queryFn(ref))
getFirstDocumentInTransaction_query_onRef(q, sel) ==
  Limit(IF sel.given THEN Select(CollectionRef, sel.fields) ELSE q, 1)

getFirstDocumentInTransaction_query(q, sel) ==
  Limit(IF sel.given THEN Select(q, sel.fields) ELSE q, 1)

\* (variant: the wrapper made without the transaction)
getFirstDocumentInTransaction_then_unbound(docs) ==
  IF Len(docs) = 0 THEN Undefined ELSE makeMutableDocument(docs[1])

getFirstDocumentInTransaction_then(docs) ==
  IF Len(docs) = 0 THEN Undefined ELSE makeMutableDocumentInTransaction(docs[1])

----------------------------------------------------------------------------
(* State after construction *)

\* processDocuments / processDocumentsByChunk in progress: the documents still to
\* hand over, the chunk size, the pagination cursor, the handler invocations not
\* yet completed, the chunks handed to the handler so far; and, to compare with,
\* the query's result when the call was made and whether the collection was
\* written since
NoProc == [docs |-> <<>>, next |-> 0, size |-> 0, after |-> "", last |-> FALSE,
           inflight |-> 0, calls |-> <<>>, expected |-> <<>>, dirty |-> FALSE]

Init ==
  /\ store \in [DocIds -> Entries]
  /\ pc = "idle"
  /\ call = NoCall
  /\ result = Pending
  /\ snap = NotSettled
  /\ issued = NoReads
  /\ tx = NoTx
  /\ lastWrite = "none"
  /\ proc = NoProc

\* how the client settles the read of one document, and of one query
DocGet(id) == {Fulfilled(DocSnapshot(store, id))} \cup {Rejected(e) : e \in ClientErrors}
QueryGet(q) == {FulfilledQuery(RunQuery(store, q))} \cup {Rejected(e) : e \in ClientErrors}

\* the accessor runs to its await, having issued one read ...
Suspend(c, reads) ==
  /\ call' = c
  /\ pc' = "awaiting"
  /\ issued' = reads
  /\ result' = Pending
  /\ snap' = NotSettled
  /\ UNCHANGED <<store, tx, lastWrite, proc>>

\* ... or settles before any await
Settle(c, r, reads) ==
  /\ call' = c
  /\ pc' = "done"
  /\ issued' = reads
  /\ result' = r
  /\ snap' = NotSettled
  /\ UNCHANGED <<store, tx, lastWrite, proc>>

----------------------------------------------------------------------------
(* The client read each accessor issues: ref.doc(id).get() and query.get() are
   direct reads, tx.get(...) is a read through the transaction *)

DirectRead == [direct |-> 1, tx |-> 0]
TxRead == [direct |-> 0, tx |-> 1]

getDocumentData_read == DirectRead
getDocumentDataMaybe_read == DirectRead
getDocumentDataInTransaction_read == TxRead
getDocumentDataInTransactionMaybe_read == TxRead
getFirstDocument_read == DirectRead
\* (variant: the query read directly, as the plain accessor reads it)
getFirstDocumentInTransaction_read_direct == DirectRead
getFirstDocumentInTransaction_read == TxRead

\* tx.get registers what it read with the transaction
Registered(t, s, reads, key) ==
  IF s.ok /\ reads.tx > 0 THEN [t EXCEPT !.reads = @ \cup {key}] ELSE t

(* getDocumentData *)

getDocumentData_call(id) ==
  /\ pc = "idle"
  /\ LET c == DocCall("getDocumentData", id)
     IN IF DocPathValid(id)
          THEN Suspend(c, getDocumentData_read)
          ELSE Settle(c, Throw("invalid-argument"), NoReads)

\* (variant: existence taken from one read, the data from a second one)
getDocumentData_resume_twoReads ==
  /\ pc = "awaiting"
  /\ call.op = "getDocumentData"
  /\ \/ /\ snap = NotSettled
        /\ \E s \in DocGet(call.id) :
             /\ snap' = s
             /\ IF s.ok
                  THEN pc' = "awaiting" /\ result' = result
                  ELSE pc' = "done" /\ result' = Throw(s.err)
        /\ issued' = issued
     \/ /\ snap.ok
        /\ \E s \in DocGet(call.id) :
             result' = Await(s, IF invariant(snap.doc.exists) = "throws"
                                  THEN Throw("not-found")
                                  ELSE Value(s.doc.data))
        /\ snap' = snap
        /\ pc' = "done"
        /\ issued' = [issued EXCEPT !.direct = @ + 1]
  /\ UNCHANGED <<store, call, tx, lastWrite, proc>>

getDocumentData_resume ==
  /\ pc = "awaiting"
  /\ call.op = "getDocumentData"
  /\ \E s \in DocGet(call.id) :
       /\ snap' = s
       /\ result' = Await(s, getDocumentData_then(s.doc))
  /\ pc' = "done"
  /\ UNCHANGED <<store, call, issued, tx, lastWrite, proc>>

(* getDocumentDataMaybe *)

getDocumentDataMaybe_call(id) ==
  /\ pc = "idle"
  /\ LET c == DocCall("getDocumentDataMaybe", id)
     IN IF Falsy(id)
          THEN Settle(c, Undefined, NoReads)
          ELSE Suspend(c, getDocumentDataMaybe_read)

getDocumentDataMaybe_resume ==
  /\ pc = "awaiting"
  /\ call.op = "getDocumentDataMaybe"
  /\ \E s \in DocGet(call.id) :
       /\ snap' = s
       /\ result' = Await(s, getDocumentDataMaybe_then(s.doc))
  /\ pc' = "done"
  /\ UNCHANGED <<store, call, issued, tx, lastWrite, proc>>

(* getDocumentDataInTransaction *)

getDocumentDataInTransaction_call(id) ==
  /\ pc = "idle"
  /\ tx.status = "active"
  /\ LET c == DocCall("getDocumentDataInTransaction", id)
     IN IF ~DocPathValid(id)
          THEN Settle(c, Throw("invalid-argument"), NoReads)
          ELSE IF getDocumentDataInTransaction_read.tx > 0 /\ ~TxCanRead(tx)
                 THEN Settle(c, Throw("read-after-write"), getDocumentDataInTransaction_read)
                 ELSE Suspend(c, getDocumentDataInTransaction_read)

getDocumentDataInTransaction_resume ==
  /\ pc = "awaiting"
  /\ call.op = "getDocumentDataInTransaction"
  /\ \E s \in DocGet(call.id) :
       /\ snap' = s
       /\ result' = Await(s, getDocumentDataInTransaction_then(s.doc))
       /\ tx' = Registered(tx, s, issued, call.id)
  /\ pc' = "done"
  /\ UNCHANGED <<store, call, issued, lastWrite, proc>>

(* getDocumentDataInTransactionMaybe *)

getDocumentDataInTransactionMaybe_call(id) ==
  /\ pc = "idle"
  /\ tx.status = "active"
  /\ LET c == DocCall("getDocumentDataInTransactionMaybe", id)
     IN IF Falsy(id)
          THEN Settle(c, Undefined, NoReads)
          ELSE IF getDocumentDataInTransactionMaybe_read.tx > 0 /\ ~TxCanRead(tx)
                 THEN Settle(c, Throw("read-after-write"), getDocumentDataInTransactionMaybe_read)
                 ELSE Suspend(c, getDocumentDataInTransactionMaybe_read)

getDocumentDataInTransactionMaybe_resume ==
  /\ pc = "awaiting"
  /\ call.op = "getDocumentDataInTransactionMaybe"
  /\ \E s \in DocGet(call.id) :
       /\ snap' = s
       /\ result' = Await(s, getDocumentDataInTransactionMaybe_then(s.doc))
       /\ tx' = Registered(tx, s, issued, call.id)
  /\ pc' = "done"
  /\ UNCHANGED <<store, call, issued, lastWrite, proc>>

----------------------------------------------------------------------------
(* getFirstDocument *)

getFirstDocument_call(q, sel) ==
  /\ pc = "idle"
  /\ Suspend(QueryCall("getFirstDocument", q, sel), getFirstDocument_read)

\* (variant: the document found is written to as it is fetched)
getFirstDocument_resume_touching ==
  /\ pc = "awaiting"
  /\ call.op = "getFirstDocument"
  /\ \E s \in QueryGet(getFirstDocument_query(call.q, call.sel)) :
       /\ snap' = s
       /\ result' = Await(s, getFirstDocument_then(s.docs))
       /\ store' = IF s.ok /\ Len(s.docs) > 0
                     THEN [store EXCEPT ![s.docs[1].id] = Stored(Merge(@.data, [a |-> 2]))]
                     ELSE store
  /\ pc' = "done"
  /\ UNCHANGED <<call, issued, tx, lastWrite, proc>>

getFirstDocument_resume ==
  /\ pc = "awaiting"
  /\ call.op = "getFirstDocument"
  /\ \E s \in QueryGet(getFirstDocument_query(call.q, call.sel)) :
       /\ snap' = s
       /\ result' = Await(s, getFirstDocument_then(s.docs))
  /\ pc' = "done"
  /\ UNCHANGED <<store, call, issued, tx, lastWrite, proc>>

(* getFirstDocumentInTransaction *)

getFirstDocumentInTransaction_call(q, sel) ==
  /\ pc = "idle"
  /\ tx.status = "active"
  /\ LET c == QueryCall("getFirstDocumentInTransaction", q, sel)
     IN IF getFirstDocumentInTransaction_read.tx > 0 /\ ~TxCanRead(tx)
          THEN Settle(c, Throw("read-after-write"), getFirstDocumentInTransaction_read)
          ELSE Suspend(c, getFirstDocumentInTransaction_read)

getFirstDocumentInTransaction_resume ==
  /\ pc = "awaiting"
  /\ call.op = "getFirstDocumentInTransaction"
  /\ \E s \in QueryGet(getFirstDocumentInTransaction_query(call.q, call.sel)) :
       /\ snap' = s
       /\ result' = Await(s, getFirstDocumentInTransaction_then(s.docs))
       /\ tx' = Registered(tx, s, issued, "query")
  /\ pc' = "done"
  /\ UNCHANGED <<store, call, issued, lastWrite, proc>>

----------------------------------------------------------------------------
(* update / updateWithPartial of the wrapper the accessor returned *)

\* the wrapper of makeMutableDocument: ref.update(data), a direct write
update_direct(patch) ==
  /\ pc = "done"
  /\ result.kind = "wrapper"
  /\ ~result.bound
  /\ store' = IF store[result.id].exists
                THEN [store EXCEPT ![result.id] = Stored(Merge(@.data, patch))]
                ELSE store
  /\ lastWrite' = "direct"
  /\ UNCHANGED <<pc, call, result, snap, issued, tx, proc>>

\* the wrapper of makeMutableDocumentInTransaction: tx.update(ref, data), staged
update_staged(patch) ==
  /\ pc = "done"
  /\ result.kind = "wrapper"
  /\ result.bound
  /\ Len(tx.writes) < MaxStaged
  /\ tx' = [tx EXCEPT !.writes = Append(@, [id |-> result.id, patch |-> patch])]
  /\ lastWrite' = "staged"
  /\ UNCHANGED <<store, pc, call, result, snap, issued, proc>>

\* the caller takes the result and goes on
Return ==
  /\ pc = "done"
  /\ pc' = "idle"
  /\ call' = NoCall
  /\ result' = Pending
  /\ snap' = NotSettled
  /\ issued' = NoReads
  /\ lastWrite' = "none"
  /\ proc' = NoProc
  /\ UNCHANGED <<store, tx>>

----------------------------------------------------------------------------
(* The client's transaction runner *)

TxBegin ==
  /\ pc = "idle"
  /\ tx.status # "active"
  /\ tx' = [NoTx EXCEPT !.status = "active"]
  /\ UNCHANGED <<store, pc, call, result, snap, issued, lastWrite, proc>>

\* the staged writes are applied together; an update of a missing document fails
\* the commit
TxCommit ==
  /\ pc = "idle"
  /\ tx.status = "active"
  /\ store' = IF \A i \in 1..Len(tx.writes) : store[tx.writes[i].id].exists
                THEN ApplyWrites(store, tx.writes)
                ELSE store
  /\ tx' = [NoTx EXCEPT !.status = "committed"]
  /\ UNCHANGED <<pc, call, result, snap, issued, lastWrite, proc>>

\* the transaction ends without committing
TxRollback ==
  /\ pc = "idle"
  /\ tx.status = "active"
  /\ tx' = [NoTx EXCEPT !.status = "rolled-back"]
  /\ UNCHANGED <<store, pc, call, result, snap, issued, lastWrite, proc>>

(* Other writers of the collection *)

\* a write while processDocuments / processDocumentsByChunk is under way
Written(p) ==
  IF call.op \in {"processDocuments", "processDocumentsByChunk"} /\ pc # "done"
    THEN [p EXCEPT !.dirty = TRUE]
    ELSE p

EnvSet(id, d) ==
  /\ store[id] # Stored(d)
  /\ store' = [store EXCEPT ![id] = Stored(d)]
  /\ proc' = Written(proc)
  /\ UNCHANGED <<pc, call, result, snap, issued, tx, lastWrite>>

EnvDelete(id) ==
  /\ store[id].exists
  /\ store' = [store EXCEPT ![id] = Absent]
  /\ proc' = Written(proc)
  /\ UNCHANGED <<pc, call, result, snap, issued, tx, lastWrite>>

----------------------------------------------------------------------------

Next ==
  \/ \E id \in DocIds \cup {EmptyString} : getDocumentData_call(id)
  \/ getDocumentData_resume
  \/ \E id \in IdArgs : getDocumentDataMaybe_call(id)
  \/ getDocumentDataMaybe_resume
  \/ \E id \in DocIds \cup {EmptyString} : getDocumentDataInTransaction_call(id)
  \/ getDocumentDataInTransaction_resume
  \/ \E id \in IdArgs : getDocumentDataInTransactionMaybe_call(id)
  \/ getDocumentDataInTransactionMaybe_resume
  \/ \E q \in CallerQueries, sel \in SelectOptions : getFirstDocument_call(q, sel)
  \/ getFirstDocument_resume
  \/ \E q \in CallerQueries, sel \in SelectOptions : getFirstDocumentInTransaction_call(q, sel)
  \/ getFirstDocumentInTransaction_resume
  \/ \E patch \in Patches : update_direct(patch)
  \/ \E patch \in Patches : update_staged(patch)
  \/ Return
  \/ TxBegin
  \/ TxCommit
  \/ TxRollback
  \/ \E id \in DocIds, d \in Records : EnvSet(id, d)
  \/ \E id \in DocIds : EnvDelete(id)

Spec == Init /\ [][Next]_vars

----------------------------------------------------------------------------
(* processDocuments and processDocumentsByChunk *)

\* the queries handed to the processors carry no limit of their own
ProcQueries == {q \in CallerQueries : q.limit = 0}
ChunkSizes == 1..MaxChunk
ProcSelects == {NoSelect, SelectOption({"a"})}

Ids(docs) == [i \in 1..Len(docs) |-> docs[i].id]

WithSelect(q, sel) == IF sel.given THEN Select(q, sel.fields) ELSE q

\* (variant: the handler's operation is not awaited)
HandlerAwaited_not(p) == TRUE

\* the next handler invocation waits for the one before it
HandlerAwaited(p) == p.inflight = 0

processDocuments_call(q, sel) ==
  /\ pc = "idle"
  /\ call' = QueryCall("processDocuments", q, sel)
  /\ pc' = "awaiting"
  /\ issued' = [direct |-> 1, tx |-> 0]
  /\ result' = Pending
  /\ snap' = NotSettled
  /\ proc' = [NoProc EXCEPT !.expected = Ids(RunQuery(store, q))]
  /\ UNCHANGED <<store, tx, lastWrite>>

\* the query settled: its documents are handed over one by one
processDocuments_resume ==
  /\ pc = "awaiting"
  /\ call.op = "processDocuments"
  /\ \E s \in QueryGet(WithSelect(call.q, call.sel)) :
       /\ snap' = s
       /\ IF s.ok
            THEN pc' = "looping" /\ result' = result /\ proc' = [proc EXCEPT !.docs = s.docs]
            ELSE pc' = "done" /\ result' = Throw(s.err) /\ proc' = proc
  /\ UNCHANGED <<store, call, issued, tx, lastWrite>>

\* handler(document) is invoked for the next document
processDocuments_invoke ==
  /\ pc = "looping"
  /\ call.op = "processDocuments"
  /\ proc.next < Len(proc.docs)
  /\ HandlerAwaited(proc)
  /\ proc' = [proc EXCEPT !.next = @ + 1,
                          !.inflight = @ + 1,
                          !.calls = Append(@, <<proc.docs[proc.next + 1].id>>)]
  /\ UNCHANGED <<store, pc, call, result, snap, issued, tx, lastWrite>>

processDocuments_finish ==
  /\ pc = "looping"
  /\ call.op = "processDocuments"
  /\ proc.next = Len(proc.docs)
  /\ proc.inflight = 0
  /\ pc' = "done"
  /\ result' = Undefined
  /\ UNCHANGED <<store, call, snap, issued, tx, lastWrite, proc>>

\* the operation a handler returned completes ...
handler_complete ==
  /\ pc = "looping"
  /\ proc.inflight > 0
  /\ proc' = [proc EXCEPT !.inflight = @ - 1]
  /\ UNCHANGED <<store, pc, call, result, snap, issued, tx, lastWrite>>

\* ... or fails: processing stops and the failure reaches the caller
handler_fail ==
  /\ pc = "looping"
  /\ proc.inflight > 0
  /\ pc' = "done"
  /\ result' = Throw("handler-error")
  /\ proc' = [proc EXCEPT !.inflight = @ - 1]
  /\ UNCHANGED <<store, call, snap, issued, tx, lastWrite>>

\* position of a document id in document-id order
RECURSIVE IndexOf(_, _)
IndexOf(id, i) ==
  IF i > Len(IdOrder) THEN 0 ELSE IF IdOrder[i] = id THEN i ELSE IndexOf(id, i + 1)

\* query.startAfter(cursor).limit(size): the page after the last document delivered
Page(s, q, after, size) ==
  LET all == RunQuery(s, q)
      Beyond(d) == \/ after = ""
                   \/ q.order = "asc" /\ IndexOf(d.id, 1) > IndexOf(after, 1)
                   \/ q.order = "desc" /\ IndexOf(d.id, 1) < IndexOf(after, 1)
      rest == SelectSeq(all, Beyond)
  IN SubSeq(rest, 1, IF Len(rest) < size THEN Len(rest) ELSE size)

\* (variant: every page is handed over)
ChunkDelivered_always(page) == TRUE

\* a page is handed to the handler unless it is empty
ChunkDelivered(page) == Len(page) > 0

processDocumentsByChunk_call(q, sel, size) ==
  /\ pc = "idle"
  /\ call' = QueryCall("processDocumentsByChunk", q, sel)
  /\ pc' = "awaiting"
  /\ issued' = [direct |-> 1, tx |-> 0]
  /\ result' = Pending
  /\ snap' = NotSettled
  /\ proc' = [NoProc EXCEPT !.size = size, !.expected = Ids(RunQuery(store, q))]
  /\ UNCHANGED <<store, tx, lastWrite>>

\* a page settled: it goes to the handler, or processing is over
processDocumentsByChunk_resume ==
  /\ pc = "awaiting"
  /\ call.op = "processDocumentsByChunk"
  /\ \E s \in {FulfilledQuery(Page(store, WithSelect(call.q, call.sel), proc.after, proc.size))}
               \cup {Rejected(e) : e \in ClientErrors} :
       /\ snap' = s
       /\ IF ~s.ok
            THEN pc' = "done" /\ result' = Throw(s.err) /\ proc' = proc
            ELSE IF ChunkDelivered(s.docs)
                   THEN /\ pc' = "looping"
                        /\ result' = result
                        /\ proc' = [proc EXCEPT !.inflight = @ + 1,
                                                !.calls = Append(@, Ids(s.docs)),
                                                !.after = IF Len(s.docs) > 0
                                                            THEN s.docs[Len(s.docs)].id
                                                            ELSE @,
                                                !.last = Len(s.docs) < proc.size]
                   ELSE pc' = "done" /\ result' = Undefined /\ proc' = proc
  /\ UNCHANGED <<store, call, issued, tx, lastWrite>>

\* the handler's operation completed: the next page is asked for, unless the
\* last page was short
processDocumentsByChunk_continue ==
  /\ pc = "looping"
  /\ call.op = "processDocumentsByChunk"
  /\ HandlerAwaited(proc)
  /\ IF proc.last
       THEN pc' = "done" /\ result' = Undefined /\ issued' = issued
       ELSE pc' = "awaiting" /\ result' = result
            /\ issued' = [issued EXCEPT !.direct = @ + 1]
  /\ UNCHANGED <<store, call, snap, tx, lastWrite, proc>>

ProcNext ==
  \/ \E q \in ProcQueries, sel \in ProcSelects : processDocuments_call(q, sel)
  \/ processDocuments_resume
  \/ processDocuments_invoke
  \/ processDocuments_finish
  \/ \E q \in ProcQueries, sel \in ProcSelects, size \in ChunkSizes :
       processDocumentsByChunk_call(q, sel, size)
  \/ processDocumentsByChunk_resume
  \/ processDocumentsByChunk_continue
  \/ handler_complete
  \/ handler_fail
  \/ Return
  \/ \E id \in DocIds, d \in Records : EnvSet(id, d)
  \/ \E id \in DocIds : EnvDelete(id)

ProcSpec == Init /\ [][ProcNext]_vars

----------------------------------------------------------------------------
(* Properties of the single-document accessors *)

RequiredOps == {"getDocumentData", "getDocumentDataInTransaction"}
MaybeOps == {"getDocumentDataMaybe", "getDocumentDataInTransactionMaybe"}

\* the step in which the client settles the awaited read of document call.id and
\* the accessor runs to its end; the unprimed store is the collection at the
\* time of the read
ReadSettles(ops) == pc = "awaiting" /\ call.op \in ops /\ pc' = "done"

\* C1: a required fetch (getDocumentData, getDocumentDataInTransaction) of a
\* document id that does not exist at the time of the read never returns a value,
\* and when the read itself succeeded it fails with the not-found condition.
C1_RequiredFetchOfMissingFails ==
  [][(ReadSettles(RequiredOps) /\ ~store[call.id].exists)
       => /\ result'.kind = "throw"
          /\ snap'.ok => result' = Throw("not-found")]_vars

C1_Witness ==
  /\ pc = "done"
  /\ call.op = "getDocumentDataInTransaction"
  /\ snap.ok
  /\ ~snap.doc.exists
  /\ result = Throw("not-found")

\* C2: a maybe fetch (getDocumentDataMaybe, getDocumentDataInTransactionMaybe) of
\* a non-empty document id that does not exist at the time of the read never
\* fails with the not-found condition, and when the read itself succeeded it
\* completes with the "no value" result.
C2_MaybeFetchOfMissingIsNoValue ==
  [][(ReadSettles(MaybeOps) /\ call.id # EmptyString /\ ~store[call.id].exists)
       => /\ result' # Throw("not-found")
          /\ snap'.ok => result' = Undefined]_vars

C2_Witness ==
  /\ pc = "done"
  /\ call.op = "getDocumentDataMaybe"
  /\ call.id \in DocIds
  /\ snap.ok
  /\ ~snap.doc.exists
  /\ result = Undefined

\* C3: a maybe fetch called with undefined, null or the empty string as the id
\* is over in its first step with the "no value" result, without having issued
\* a read to the client, directly or through the transaction.
C3_EmptyIdIssuesNoRead ==
  (call.op \in MaybeOps /\ call.id \in {EmptyString, UndefinedArg, NullArg})
    => /\ pc = "done"
       /\ result = Undefined
       /\ issued.direct = 0
       /\ issued.tx = 0
       /\ snap = NotSettled

C3_Witness ==
  /\ pc = "done"
  /\ call.op = "getDocumentDataInTransactionMaybe"
  /\ call.id = EmptyString
  /\ tx.status = "active"
  /\ result = Undefined
  /\ issued = NoReads

\* C4: for a document that exists at the time of the read, every single-document
\* accessor whose read succeeded returns exactly the record stored under that id,
\* and the required and the maybe accessor make the same result of that read.
C4_ExistingDocumentSameContent ==
  [][(ReadSettles(RequiredOps \cup MaybeOps) /\ store[call.id].exists /\ snap'.ok)
       => LET doc == DocSnapshot(store, call.id)
          IN /\ result' = Value(store[call.id].data)
             /\ getDocumentData_then(doc) = getDocumentDataMaybe_then(doc)
             /\ getDocumentDataInTransaction_then(doc)
                  = getDocumentDataInTransactionMaybe_then(doc)]_vars

C4_Witness ==
  /\ pc = "done"
  /\ call.op = "getDocumentDataInTransactionMaybe"
  /\ snap.ok
  /\ snap.doc.exists
  /\ result = Value(snap.doc.data)
  /\ result.data \in Records

----------------------------------------------------------------------------
(* Properties of getFirstDocument, the wrappers and the transaction *)

FirstOps == {"getFirstDocument", "getFirstDocumentInTransaction"}
TxOps == {"getDocumentDataInTransaction", "getDocumentDataInTransactionMaybe",
          "getFirstDocumentInTransaction"}
PlainOps == {"getDocumentData", "getDocumentDataMaybe", "getFirstDocument"}

C6_StagedUntilCommit ==
  [][/\ (pc = "done" /\ call.op = "getFirstDocumentInTransaction"
           /\ result.kind = "wrapper" /\ lastWrite' # lastWrite /\ pc' = "done")
          => /\ lastWrite' = "staged"
             /\ store' = store
             /\ tx'.writes = Append(tx.writes, [id |-> result.id, patch |-> tx'.writes[Len(tx'.writes)].patch])
     /\ store' # store
          => \/ tx.status = "active" /\ tx'.status = "committed"
             \/ pc = "done" /\ call.op = "getFirstDocument" /\ lastWrite' = "direct"
             \/ <<pc, call, result, snap, issued, tx, lastWrite>>'
                  = <<pc, call, result, snap, issued, tx, lastWrite>>]_vars

C6_Witness ==
  /\ pc = "done"
  /\ call.op = "getFirstDocumentInTransaction"
  /\ result.kind = "wrapper"
  /\ lastWrite = "staged"
  /\ tx.status = "active"
  /\ tx.writes = <<[id |-> result.id, patch |-> [a |-> 2]]>>
  /\ store[result.id] = Stored([a |-> 1, b |-> 1])

\* C7: a transactional accessor issues no direct read; the read it issues goes
\* through the transaction and, once it succeeded, is in the transaction's read
\* set.  A plain accessor issues no read through a transaction and leaves the
\* transaction as it is.
C7_ReadsThroughTransaction ==
  [][/\ call'.op \in TxOps => issued'.direct = 0
     /\ (ReadSettles(TxOps) /\ snap'.ok)
          => /\ issued.tx = 1
             /\ (IF call.op \in FirstOps THEN "query" ELSE call.id) \in tx'.reads
     /\ call'.op \in PlainOps => (issued'.tx = 0 /\ tx' = tx)]_vars

C7_Witness ==
  /\ pc = "done"
  /\ call.op = "getFirstDocumentInTransaction"
  /\ snap.ok
  /\ issued = TxRead
  /\ tx.reads = {"d1", "query"}

\* C8: with a select option S (the empty list included), the data of the wrapper
\* getFirstDocument / getFirstDocumentInTransaction returns has exactly the keys
\* in S, also when the caller's query carries a field selection of its own.
C8_SelectedKeysOnly ==
  [][(ReadSettles(FirstOps) /\ call.sel.given /\ result'.kind = "wrapper")
       => Keys(result'.data) = call.sel.fields]_vars

C8_Witness ==
  /\ pc = "done"
  /\ call.op = "getFirstDocument"
  /\ call.q.proj = Projection({"b"})
  /\ call.sel = SelectOption({})
  /\ result.kind = "wrapper"
  /\ Keys(result.data) = {}

----------------------------------------------------------------------------
(* Properties of processDocuments and processDocumentsByChunk *)

RECURSIVE Flatten(_)
Flatten(chunks) == IF chunks = <<>> THEN <<>> ELSE Head(chunks) \o Flatten(Tail(chunks))

CeilDiv(n, c) == (n + c - 1) \div c

\* C9: processDocuments invokes its handler once per document of the query's
\* result, in result order, with at most one invocation in flight: the next
\* starts only when the operation the previous one returned has completed.  When
\* it completes normally over a result of N documents the handler was invoked
\* exactly N times, and if nothing was written meanwhile these are the documents
\* the query matched when the call was made.
C9_OneHandlerAtATime ==
  call.op = "processDocuments"
    => /\ proc.inflight <= 1
       /\ Len(proc.calls) = proc.next
       /\ \A i \in 1..Len(proc.calls) : proc.calls[i] = <<proc.docs[i].id>>
       /\ (pc = "done" /\ result = Undefined)
            => /\ Len(proc.calls) = Len(proc.docs)
               /\ proc.inflight = 0
               /\ ~proc.dirty => Flatten(proc.calls) = proc.expected

C9_Witness ==
  /\ pc = "done"
  /\ call.op = "processDocuments"
  /\ result = Undefined
  /\ ~proc.dirty
  /\ Len(proc.calls) = Len(IdOrder)
  /\ Flatten(proc.calls) = IdOrder

\* C10: processDocumentsByChunk with chunk size C never hands its handler an
\* empty chunk or one of more than C documents.  When it completes normally over
\* a collection that was not written meanwhile, with N documents in the query's
\* result, the handler was invoked ceil(N/C) times and the chunks, concatenated
\* in invocation order, are the unpaginated result in the same order.
C10_ChunksCoverResult ==
  call.op = "processDocumentsByChunk"
    => /\ \A i \in 1..Len(proc.calls) :
            Len(proc.calls[i]) >= 1 /\ Len(proc.calls[i]) <= proc.size
       /\ (pc = "done" /\ result = Undefined /\ ~proc.dirty)
            => /\ Flatten(proc.calls) = proc.expected
               /\ Len(proc.calls) = CeilDiv(Len(proc.expected), proc.size)

C10_Witness ==
  /\ pc = "done"
  /\ call.op = "processDocumentsByChunk"
  /\ result = Undefined
  /\ ~proc.dirty
  /\ proc.size = 2
  /\ proc.calls = <<<<"d3", "d2">>, <<"d1">>>>
  /\ proc.expected = <<"d3", "d2", "d1">>

----------------------------------------------------------------------------
(* Failures of the client *)

AccessorOps == RequiredOps \cup MaybeOps \cup FirstOps

\* C11: when the client rejects the read an accessor awaits, the accessor fails
\* with that very error: the maybe accessors and getFirstDocument do not answer
\* it with "no value", and the required accessors do not answer it with the
\* not-found condition.
C11_ClientFailurePropagates ==
  (pc = "done" /\ call.op \in AccessorOps /\ snap # NotSettled /\ ~snap.ok)
    => /\ snap.err \in ClientErrors
       /\ result = Throw(snap.err)
       /\ result # Undefined
       /\ result # Throw("not-found")

C11_Witness ==
  /\ pc = "done"
  /\ call.op = "getDocumentDataMaybe"
  /\ call.id \in DocIds
  /\ ~store[call.id].exists
  /\ snap = Rejected("permission-denied")
  /\ result = Throw("permission-denied")

----------------------------------------------------------------------------
(* What the read paths leave alone *)

\* a step of a fetch accessor: its call up to the await, or its run from the
\* settled read to its end
AccessorStep ==
  \/ pc = "idle" /\ call'.op \in AccessorOps
  \/ ReadSettles(AccessorOps)

\* C12: no step of a fetch accessor, whether it ends in a value, in "no value"
\* or in a failure, changes the stored documents or the writes staged with the
\* transaction; a write is staged only by update / updateWithPartial on a
\* returned wrapper, and a direct write is issued only by it.
C12_ReadPathsDoNotWrite ==
  [][/\ AccessorStep
          => /\ store' = store
             /\ tx'.writes = tx.writes
             /\ lastWrite' = lastWrite
     /\ (tx'.writes # tx.writes /\ tx'.writes # <<>>)
          => /\ pc = "done" /\ pc' = "done"
             /\ result.kind = "wrapper"
             /\ lastWrite' = "staged"
     /\ (lastWrite' # lastWrite /\ lastWrite' # "none")
          => /\ pc = "done" /\ pc' = "done"
             /\ result.kind = "wrapper"]_vars

C12_Witness ==
  /\ pc = "done"
  /\ call.op = "getDocumentDataMaybe"
  /\ result.kind = "value"
  /\ tx.status = "active"
  /\ tx.writes # <<>>
  /\ store[tx.writes[1].id] = Stored([a |-> 1, b |-> 1])

----------------------------------------------------------------------------
(* One read, one snapshot *)

SingleOps == RequiredOps \cup MaybeOps

\* what document entry e makes of a fetch: its record, or the accessor's answer
\* to absence
Outcome(op, e) ==
  IF e.exists THEN Value(e.data)
  ELSE IF op \in RequiredOps THEN Throw("not-found") ELSE Undefined

\* C13: a single-document accessor called with a document id issues exactly one
\* read.  When that read succeeds, existence and data both come from the
\* document as it was at the instant of the read: a required fetch fails with
\* not-found or returns that record, a maybe fetch returns "no value" or that
\* record, and writes by others after the read, while the result is held, do not
\* change it.
C13_OneSnapshot ==
  [][/\ (call'.op \in SingleOps /\ call'.id \in DocIds)
          => issued'.direct + issued'.tx = 1
     /\ (ReadSettles(SingleOps) /\ snap'.ok)
          => /\ snap'.doc = DocSnapshot(store, call.id)
             /\ result' = Outcome(call.op, store[call.id])
     /\ (pc = "done" /\ pc' = "done" /\ call.op \in SingleOps)
          => /\ result' = result
             /\ snap' = snap
             /\ issued' = issued]_vars

C13_Witness ==
  /\ pc = "done"
  /\ call.op = "getDocumentData"
  /\ snap.ok
  /\ snap.doc.data = [a |-> 1, b |-> 1]
  /\ result = Value([a |-> 1, b |-> 1])
  /\ issued = DirectRead
  /\ store[call.id] = Absent

====
